---- MODULE Spec2Model ----
(***************************************************************************)
(* JSON-RPC 1.1 service dispatcher (jsonrpc11base.main.JSONRPCService).    *)
(*                                                                         *)
(* Python values are modelled as follows.                                  *)
(*   - scalars, arrays and other JSON values are string tokens; the token  *)
(*     None is Python's None, which is also what JSON null decodes to;     *)
(*     error codes are integers;                                           *)
(*   - a Python dict is a function whose domain is its set of keys;        *)
(*   - an operation that may raise returns a record with a raised flag.    *)
(***************************************************************************)
EXTENDS Integers, Sequences, FiniteSets, TLC

VARIABLES
    method_registry,     \* self.method_registry: insertion-ordered dict name -> Method
    service_validation,  \* self.service_validation: None or the service's Validation
    validate_result,     \* self.validate_result
    description,         \* self.description (its to_json() payload)
    pc,                  \* "idle": no call in progress; "returned": the last operation returned or raised
    op,                  \* the last operation: "none", "add", "call_py" or "call"
    input,               \* the argument of the last operation
    outcome,             \* what the last operation did: return value, escaped exception, handler invocations, stages
    described,           \* history: the output of the system.describe calls since the registry last changed
    calls                \* the call_py executions in progress, one per thread: their position and local variables

vars == <<method_registry, service_validation, validate_result, description,
          pc, op, input, outcome, described, calls>>

----------------------------------------------------------------------------
(* Bounds of the model *)

\* largest number of entries of the registry (system.describe included)
MaxMethods == 3

----------------------------------------------------------------------------
(* Python values *)

None == "None"
EmptyDict == [k \in {} |-> None]

\* d.get(k)
dict_get(d, k) == IF k \in DOMAIN d THEN d[k] ELSE None

\* d[k] = v
dict_set(d, k, v) == [x \in DOMAIN d \cup {k} |-> IF x = k THEN v ELSE d[x]]

\* tokens that are JSON strings (method names are the strings themselves)
StringTokens == {"system.describe", "system.x", "add", "get", "1.1", "1.0", "'a'"}
\* tokens that are JSON numbers
NumberTokens == {"1", "5", "42"}
\* tokens that are JSON arrays or objects
StructuredTokens == {"[2,3]", "[]", "{}"}
\* a Python object that json.dumps cannot serialise (for instance a set)
Unserializable == "<set>"

\* the handler functions an application registers, named by their __name__
Funcs == {"add", "get"}
\* the bound method self.handle_system_describe
BuiltinDescribe == "handle_system_describe"
\* func.__name__
func_name(f) == f

----------------------------------------------------------------------------
(* errors.py *)

RPC_ERRORS ==
    (-32700 :> "Parse error") @@ (-32600 :> "Invalid Request") @@
    (-32601 :> "Method not found") @@ (-32602 :> "Invalid params") @@
    (-32603 :> "Internal error") @@ (-32000 :> "Server error")

\* the first positional argument of make_jsonrpc_error is an int at every
\* call site but one, which passes a dict
PyInt(n) == [t |-> "int", n |-> n, d |-> EmptyDict]
PyDict(d) == [t |-> "dict", n |-> 0, d |-> d]

Ok(v) == [raised |-> FALSE, exc |-> "", val |-> v]
Raise(cls) == [raised |-> TRUE, exc |-> cls, val |-> EmptyDict]

\* the error dict; "error" is the optional structured data (None: no key)
ErrorObject(code, message, has_data, data) ==
    LET base == [k \in {"name", "code", "message"} |->
                    IF k = "name" THEN "JSONRPCError"
                    ELSE IF k = "code" THEN code
                    ELSE message]
    IN IF has_data THEN dict_set(base, "error", data) ELSE base

make_jsonrpc_error(code, message, has_error, error) ==
    IF message # None
    THEN Ok(ErrorObject(code.n, message, has_error, error))
    ELSE IF code.t = "dict" THEN Raise("TypeError")        \* unhashable key
    ELSE IF code.n \notin DOMAIN RPC_ERRORS THEN Raise("KeyError")
    ELSE Ok(ErrorObject(code.n, RPC_ERRORS[code.n], has_error, error))

\* variant: the response also gets a result member
make_jsonrpc_error_response_with_result(error, id) ==
    LET response_data == [k \in {"version", "error", "result"} |->
                            IF k = "version" THEN "1.1"
                            ELSE IF k = "error" THEN error ELSE None]
    IN IF id # None THEN dict_set(response_data, "id", id)
       ELSE response_data

make_jsonrpc_error_response(error, id) ==
    LET response_data == [k \in {"version", "error"} |->
                            IF k = "version" THEN "1.1" ELSE error]
    IN IF id # None THEN dict_set(response_data, "id", id)
       ELSE response_data

\* exceptions: cls is the family the except clauses distinguish
Exc(cls, code, message, has_data, data, text) ==
    [cls |-> cls, code |-> code, message |-> message,
     has_data |-> has_data, data |-> data, text |-> text]

NoExc == Exc("", 0, None, FALSE, EmptyDict, "")

\* str(x): a string is itself, None becomes the string 'None'
py_str(x) == IF x = None THEN "'None'" ELSE x

\* variant: the structured data is left out
to_json_without_data(e) ==
    [k \in {"name", "code", "message"} |->
        IF k = "name" THEN e.cls
        ELSE IF k = "code" THEN e.code
        ELSE py_str(e.message)]

\* JSONRPCError.to_json and APIError.to_json
to_json(e) ==
    LET base == [k \in {"name", "code", "message"} |->
                    IF k = "name" THEN e.cls
                    ELSE IF k = "code" THEN e.code
                    ELSE py_str(e.message)]
    IN IF e.has_data THEN dict_set(base, "error", e.data) ELSE base

InvalidParamsError(has_data, data) ==
    Exc("JSONRPCError", -32602, "Invalid params", has_data, data, "")

ServerError_ReservedErrorCode(bad_code) ==
    Exc("JSONRPCError", -32001, "Reserved Error Code", TRUE,
        [k \in {"bad_code"} |-> bad_code], "")

ServerError_InvalidResult(bad_result) ==
    Exc("JSONRPCError", -32002, "Invalid result", TRUE,
        [k \in {"bad_result"} |-> bad_result], "")

----------------------------------------------------------------------------
(* Collaborators of main.py: the request schema, the Validation objects   *)
(* and the Method wrapper                                                  *)

\* a decoded request: a dict, or any other Python object
PyObj(isdict, d, v) == [isdict |-> isdict, d |-> d, v |-> v]

SchemaError(message, path, value) ==
    Exc("SchemaError", 0, message, TRUE,
        [k \in {"message", "path", "value"} |->
            IF k = "message" THEN message ELSE IF k = "path" THEN path ELSE value],
        message)

\* self.jsonrpc_schemas.validate('request', req_data): the JSON-RPC 1.1
\* request shape {version, method: string, params?: array-or-object, id?}
jsonrpc_schemas_validate(req_data) ==
    IF ~req_data.isdict
        THEN [raised |-> TRUE, exc |-> SchemaError("not an object", "", req_data.v)]
    ELSE LET d == req_data.d IN
    IF "version" \notin DOMAIN d
        THEN [raised |-> TRUE, exc |-> SchemaError("version is required", "", None)]
    ELSE IF d["version"] # "1.1"
        THEN [raised |-> TRUE, exc |-> SchemaError("bad version", "version", d["version"])]
    ELSE IF "method" \notin DOMAIN d
        THEN [raised |-> TRUE, exc |-> SchemaError("method is required", "", None)]
    ELSE IF d["method"] \notin StringTokens
        THEN [raised |-> TRUE, exc |-> SchemaError("method is not a string", "method", d["method"])]
    ELSE IF "params" \in DOMAIN d /\ d["params"] \notin StructuredTokens
        THEN [raised |-> TRUE, exc |-> SchemaError("params is not an array or object", "params", d["params"])]
    ELSE IF "id" \in DOMAIN d /\ d["id"] \notin StringTokens \cup NumberTokens \cup {None}
        THEN [raised |-> TRUE, exc |-> SchemaError("bad id", "id", d["id"])]
    ELSE [raised |-> FALSE, exc |-> NoExc]

\* a Validation object: for each role, the methods that have a schema
Validation(params, absent_params, result, absent_result) ==
    [isNone |-> FALSE, params |-> params, absent_params |-> absent_params,
     result |-> result, absent_result |-> absent_result]

NoValidation == [isNone |-> TRUE, params |-> {}, absent_params |-> {},
                 result |-> {}, absent_result |-> {}]

has_params_validation(validator, method_name) == method_name \in validator.params
has_absent_params_validation(validator, method_name) == method_name \in validator.absent_params
has_result_validation(validator, method_name) == method_name \in validator.result
has_absent_result_validation(validator, method_name) == method_name \in validator.absent_result

\* validate_params: a violation of the params schema is raised as an
\* InvalidParamsError that carries the violation
validate_params(method_name, params, violates) ==
    IF violates
    THEN [raised |-> TRUE,
          exc |-> InvalidParamsError(TRUE, SchemaError("bad params", "0", params).data)]
    ELSE [raised |-> FALSE, exc |-> NoExc]

\* validate_result: a violation of the result schema is raised as a SchemaError
validate_result_schema(method_name, result, violates) ==
    IF violates
    THEN [raised |-> TRUE, exc |-> SchemaError("bad result", "", result)]
    ELSE [raised |-> FALSE, exc |-> NoExc]

\* self.system_validation: the fixed schema set of the built-in methods
system_validation == Validation({}, {"system.describe"}, {}, {})

\* variant: the test for the system namespace is inverted
startswith_system_inverted(method_name) == method_name \notin {"system.describe", "system.x"}

\* method_name.startswith('system.')
startswith_system(method_name) == method_name \in {"system.describe", "system.x"}

\* what a handler function does when it is invoked
Returns(v) == [k |-> "return", v |-> v, exc |-> NoExc]
Raises(e) == [k |-> "raise", v |-> None, exc |-> e]

\* variant: the output depends on the options passed through
handle_system_describe_by_options(desc, options) ==
    Returns(IF options = None THEN desc ELSE options)

\* JSONRPCService.handle_system_describe
handle_system_describe(desc, options) == Returns(desc)

\* Method.call(params, options): invoke the wrapped function
Method_call(func, desc, params, options, behaviour) ==
    IF func = BuiltinDescribe THEN handle_system_describe(desc, options)
    ELSE behaviour

\* one invocation of a handler: its arguments and what it did
Invocation(func, params, options, did) ==
    [func |-> func, params |-> params, options |-> options, did |-> did]

----------------------------------------------------------------------------
(* main.py: the method registry *)

\* the registry is an insertion-ordered dict: a sequence of entries
Method(name, func) == [name |-> name, func |-> func]

\* list(self.method_registry.keys())
registry_keys(reg) == [i \in 1..Len(reg) |-> reg[i].name]

\* name in self.method_registry
registered(reg, name) == \E i \in 1..Len(reg) : reg[i].name = name

\* self.method_registry[name]
registry_get(reg, name) == reg[CHOOSE i \in 1..Len(reg) : reg[i].name = name]

\* variant: an already bound name is rebound to the new function
add_overwrite(reg, func, name) ==
    LET function_name == IF name # None /\ name # "" THEN name ELSE func_name(func)
    IN IF registered(reg, function_name)
       THEN [raised |-> FALSE, exc |-> "",
             reg |-> [i \in 1..Len(reg) |->
                        IF reg[i].name = function_name
                        THEN Method(function_name, func) ELSE reg[i]]]
       ELSE [raised |-> FALSE, exc |-> "",
             reg |-> Append(reg, Method(function_name, func))]

\* JSONRPCService.add: the registry after the call and whether it raised
add(reg, func, name) ==
    LET function_name == IF name # None /\ name # "" THEN name ELSE func_name(func)
    IN IF registered(reg, function_name)
       THEN [raised |-> TRUE, exc |-> "DuplicateMethodName", reg |-> reg]
       ELSE [raised |-> FALSE, exc |-> "",
             reg |-> Append(reg, Method(function_name, func))]

----------------------------------------------------------------------------
(* main.py: call_py and its nested functions *)

\* the outcome of running a nested function: a value or a raised exception,
\* variant: a stage that invoked the handler invokes it again
Step_retrying(raised, exc, val, invoked, stages) ==
    [raised |-> raised, exc |-> exc, val |-> val,
     invoked |-> invoked \o invoked, stages |-> stages]

\* the handler invocations made and the lifecycle stages entered
Step(raised, exc, val, invoked, stages) ==
    [raised |-> raised, exc |-> exc, val |-> val,
     invoked |-> invoked, stages |-> stages]

\* variant: an empty array or object counts as no params
params_is_None_falsy(params) == params \in {None, "[]", "{}"}

\* params is None
params_is_None(params) == params = None

\* variant: a method without a params validator is invoked unvalidated
do_method_skipping(sv, desc, method_name, method, params, options, behaviour, pviol) ==
    LET validator == IF startswith_system(method_name) THEN system_validation ELSE sv
        called == Method_call(method.func, desc, params, options, behaviour)
        calledNone == Method_call(method.func, desc, None, options, behaviour)
        inv == <<Invocation(method.func, params, options, called)>>
        invNone == <<Invocation(method.func, None, options, calledNone)>>
    IN
    IF ~validator.isNone THEN
        IF has_params_validation(validator, method_name) THEN
            IF params_is_None(params) THEN
                Step(TRUE, InvalidParamsError(TRUE,
                        [k \in {"message"} |-> "Method has parameters specified, but none were provided"]),
                     None, <<>>, <<"params">>)
            ELSE
                LET vp == validate_params(method_name, params, pviol) IN
                IF vp.raised THEN Step(TRUE, vp.exc, None, <<>>, <<"params">>)
                ELSE Step(called.k = "raise", called.exc, called.v, inv, <<"params", "invoke">>)
        ELSE IF has_absent_params_validation(validator, method_name) THEN
            IF params_is_None(params) THEN
                Step(calledNone.k = "raise", calledNone.exc, calledNone.v, invNone,
                     <<"params", "invoke">>)
            ELSE
                Step(TRUE, InvalidParamsError(TRUE,
                        [k \in {"message"} |-> "Method has no parameters specified, but arguments were provided"]),
                     None, <<>>, <<"params">>)
        ELSE
            Step(called.k = "raise", called.exc, called.v, inv, <<"params", "invoke">>)
    ELSE
        Step(called.k = "raise", called.exc, called.v, inv, <<"invoke">>)

do_method(sv, desc, method_name, method, params, options, behaviour, pviol) ==
    LET validator == IF startswith_system(method_name) THEN system_validation ELSE sv
        called == Method_call(method.func, desc, params, options, behaviour)
        calledNone == Method_call(method.func, desc, None, options, behaviour)
        inv == <<Invocation(method.func, params, options, called)>>
        invNone == <<Invocation(method.func, None, options, calledNone)>>
    IN
    IF ~validator.isNone THEN
        IF has_params_validation(validator, method_name) THEN
            IF params_is_None(params) THEN
                Step(TRUE, InvalidParamsError(TRUE,
                        [k \in {"message"} |-> "Method has parameters specified, but none were provided"]),
                     None, <<>>, <<"params">>)
            ELSE
                LET vp == validate_params(method_name, params, pviol) IN
                IF vp.raised THEN Step(TRUE, vp.exc, None, <<>>, <<"params">>)
                ELSE Step(called.k = "raise", called.exc, called.v, inv, <<"params", "invoke">>)
        ELSE IF has_absent_params_validation(validator, method_name) THEN
            IF params_is_None(params) THEN
                Step(calledNone.k = "raise", calledNone.exc, calledNone.v, invNone,
                     <<"params", "invoke">>)
            ELSE
                Step(TRUE, InvalidParamsError(TRUE,
                        [k \in {"message"} |-> "Method has no parameters specified, but arguments were provided"]),
                     None, <<>>, <<"params">>)
        ELSE
            Step(TRUE, InvalidParamsError(TRUE,
                    [k \in {"message"} |-> "Validation is enabled, but no parameter validator was provided"]),
                 None, <<>>, <<"params">>)
    ELSE
        Step(called.k = "raise", called.exc, called.v, inv, <<"invoke">>)

do_result(sv, vr, method_name, result, rviol) ==
    IF ~vr THEN Step(FALSE, NoExc, result, <<>>, <<>>)
    ELSE IF sv.isNone THEN Step(FALSE, NoExc, result, <<>>, <<>>)
    ELSE IF ~has_result_validation(sv, method_name) THEN
        Step(TRUE, InvalidParamsError(TRUE,
                [k \in {"message"} |-> "Validation is enabled, but no result validator was provided"]),
             None, <<>>, <<"result">>)
    ELSE IF has_absent_result_validation(sv, method_name) THEN
        IF result = None THEN Step(FALSE, NoExc, None, <<>>, <<"result">>)
        ELSE Step(TRUE, ServerError_InvalidResult(
                    [k \in {"message"} |-> "The method is specified to not return a result, but a value was returned"]),
                  None, <<>>, <<"result">>)
    ELSE
        LET vres == validate_result_schema(method_name, result, rviol) IN
        IF vres.raised THEN Step(TRUE, vres.exc, None, <<>>, <<"result">>)
        ELSE Step(FALSE, NoExc, result, <<>>, <<"result">>)

\* variant: the id is tested for truthiness instead of key presence
make_result_response_truthy(has_id, req_data, result) ==
    LET response_data == [k \in {"version", "result"} |->
                            IF k = "version" THEN "1.1" ELSE result]
    IN IF dict_get(req_data.d, "id") # None
       THEN dict_set(response_data, "id", req_data.d["id"])
       ELSE response_data

make_result_response(has_id, req_data, result) ==
    LET response_data == [k \in {"version", "result"} |->
                            IF k = "version" THEN "1.1" ELSE result]
    IN IF has_id THEN dict_set(response_data, "id", req_data.d["id"])
       ELSE response_data

\* variant: the structured data is replaced, not extended
make_error_response_replacing(method_name, id, error) ==
    LET e1 == IF method_name # None
              THEN dict_set(error, "error", dict_set(EmptyDict, "method", method_name))
              ELSE error
    IN make_jsonrpc_error_response(e1, id)

make_error_response(method_name, id, error) ==
    LET e1 == IF method_name # None
              THEN LET e0 == IF "error" \notin DOMAIN error
                             THEN dict_set(error, "error", EmptyDict) ELSE error
                   IN dict_set(e0, "error", dict_set(e0["error"], "method", method_name))
              ELSE error
    IN make_jsonrpc_error_response(e1, id)

\* what call_py or call did: kind is "object" (a response object was
\* returned), "text" (its JSON text was returned), "None" (None was
\* returned) or "raise" (the exception exc escaped to the caller)
Result(kind, ret, exc, invoked, trace) ==
    [kind |-> kind, ret |-> ret, exc |-> exc, invoked |-> invoked, trace |-> trace]

\* variant: only the server-error range counts as reserved
reserved_code_server_range(code) == code >= -32099 /\ code <= -32000

\* variant: the ends of the reserved band are excluded
reserved_code_exclusive(code) == code > -32768 /\ code < -32000

\* the reserved band test of the APIError clause
reserved_code(code) == code >= -32768 /\ code <= -32000

\* the except clauses of call_py, in their order
handle_exception(e, method_name, id, invoked, trace) ==
    IF e.cls = "SchemaError" THEN
        LET made == make_jsonrpc_error(PyDict(e.data), None, FALSE, EmptyDict) IN
        IF made.raised THEN Result("raise", EmptyDict, made.exc, invoked, trace)
        ELSE Result("object", make_error_response(method_name, id, made.val),
                    "", invoked, trace \o <<"respond">>)
    ELSE IF e.cls = "JSONRPCError" THEN
        Result("object", make_error_response(method_name, id, to_json(e)),
               "", invoked, trace \o <<"respond">>)
    ELSE IF e.cls = "APIError" THEN
        IF reserved_code(e.code) THEN
            Result("object",
                   make_error_response(method_name, id,
                                       to_json(ServerError_ReservedErrorCode(e.code))),
                   "", invoked, trace \o <<"respond">>)
        ELSE
            Result("object", make_error_response(method_name, id, to_json(e)),
                   "", invoked, trace \o <<"respond">>)
    ELSE
        LET made == make_jsonrpc_error(PyInt(-32002), "Exception calling method", TRUE,
                        [k \in {"message", "exception_message", "traceback"} |->
                            IF k = "message"
                            THEN "An unexpected exception was caught executing the method"
                            ELSE IF k = "exception_message" THEN e.text
                            ELSE "traceback"])
        IN Result("object", make_error_response(method_name, id, made.val),
                  "", invoked, trace \o <<"respond">>)

call_py(reg, sv, vr, desc, req_data, options, behaviour, pviol, rviol) ==
    LET checked == jsonrpc_schemas_validate(req_data) IN
    IF checked.raised THEN
        LET error == make_jsonrpc_error(PyInt(-32600), None, TRUE, checked.exc.data).val IN
        IF req_data.isdict
        THEN Result("object",
                    make_jsonrpc_error_response(error, dict_get(req_data.d, "id")),
                    "", <<>>, <<"validate", "respond">>)
        ELSE Result("object", make_jsonrpc_error_response(error, None),
                    "", <<>>, <<"validate", "respond">>)
    ELSE
    LET has_id == "id" \in DOMAIN req_data.d
        id == dict_get(req_data.d, "id")
        method_name == req_data.d["method"]
    IN
    IF ~registered(reg, method_name) THEN
        LET error == make_jsonrpc_error(PyInt(-32601), None, TRUE,
                        [k \in {"method", "available_methods"} |->
                            IF k = "method" THEN method_name
                            ELSE registry_keys(reg)]).val
        IN Result("object", make_jsonrpc_error_response(error, id),
                  "", <<>>, <<"validate", "resolve", "respond">>)
    ELSE
    LET method == registry_get(reg, method_name)
        params == dict_get(req_data.d, "params")
        m == do_method(sv, desc, method_name, method, params, options, behaviour, pviol)
        r == do_result(sv, vr, method_name, m.val, rviol)
        t1 == <<"validate", "resolve">> \o m.stages
    IN
    IF m.raised THEN handle_exception(m.exc, method_name, id, m.invoked, t1)
    ELSE IF r.raised THEN handle_exception(r.exc, method_name, id, m.invoked, t1 \o r.stages)
    ELSE Result("object", make_result_response(has_id, req_data, r.val),
                "", m.invoked, t1 \o r.stages \o <<"respond">>)

----------------------------------------------------------------------------
(* main.py: call *)

\* a request text: malformed, or the JSON text of a value
Malformed(err) == [wf |-> FALSE, err |-> err, obj |-> PyObj(FALSE, EmptyDict, None)]
TextOf(obj) == [wf |-> TRUE, err |-> "", obj |-> obj]

\* variant: a malformed text does not raise
json_loads_lenient(jsondata) ==
    [raised |-> FALSE, exc |-> "", val |-> jsondata.obj, msg |-> ""]

\* json.loads: ValueError on a malformed text, else the decoded value
json_loads(jsondata) ==
    IF jsondata.wf THEN [raised |-> FALSE, exc |-> "", val |-> jsondata.obj, msg |-> ""]
    ELSE [raised |-> TRUE, exc |-> "ValueError", val |-> jsondata.obj, msg |-> jsondata.err]

\* json.dumps of a response: TypeError when the result is not serialisable
json_dumps(resp) ==
    IF "result" \in DOMAIN resp /\ resp["result"] = Unserializable
    THEN Raise("TypeError") ELSE Ok(resp)

call(reg, sv, vr, desc, jsondata, options, behaviour, pviol, rviol) ==
    LET loaded == json_loads(jsondata) IN
    IF loaded.raised THEN
        LET error == make_jsonrpc_error(PyInt(-32700), None, TRUE,
                                        [k \in {"message"} |-> loaded.msg]).val
            resp == make_jsonrpc_error_response(error, None)
        IN Result("text", json_dumps(resp).val, "", <<>>, <<"parse", "respond">>)
    ELSE
    LET result == call_py(reg, sv, vr, desc, loaded.val, options, behaviour, pviol, rviol)
        t == <<"parse">> \o result.trace
    IN IF result.kind = "raise"
       THEN Result("raise", EmptyDict, result.exc, result.invoked, t)
       ELSE IF result.kind # "None" THEN     \* result is not None
            LET dumped == json_dumps(result.ret) IN
            IF dumped.raised THEN Result("raise", EmptyDict, dumped.exc, result.invoked, t)
            ELSE Result("text", dumped.val, "", result.invoked, t)
       ELSE Result("None", EmptyDict, "", result.invoked, t)

----------------------------------------------------------------------------
(* The service as a state machine *)

\* the schema directories a service is constructed with
ValidationConfigs ==
    { NoValidation,
      Validation({"add"}, {"get"}, {"add", "get"}, {"get"}),
      Validation({"get"}, {}, {"add"}, {"add", "get"}) }

\* marks a key that the request dict does not have
Absent == "<absent>"

\* the request dict with the given members
Request(version, method, params, id) ==
    LET given == [k \in {"version", "method", "params", "id"} |->
                    IF k = "version" THEN version ELSE IF k = "method" THEN method
                    ELSE IF k = "params" THEN params ELSE id]
    IN [k \in {x \in DOMAIN given : given[x] # Absent} |-> given[k]]

RequestIds == {Absent, None, "1"}

\* request objects handed to call_py: the well-formed ones, and ones that
\* break the request schema in each of its members
RequestDicts ==
    { Request("1.1", m, p, i) :
        m \in {"system.describe", "system.x", "add", "get"},
        p \in {Absent, "[2,3]", "[]", "{}"}, i \in RequestIds } \cup
    { Request(Absent, "add", Absent, i) : i \in RequestIds } \cup
    { Request("1.0", "add", "[2,3]", i) : i \in RequestIds } \cup
    { Request("1.1", Absent, Absent, i) : i \in RequestIds } \cup
    { Request("1.1", "42", Absent, i) : i \in RequestIds } \cup
    { Request("1.1", "add", "5", i) : i \in RequestIds } \cup
    { Request("1.1", "add", Absent, "[]") }

Requests ==
    { PyObj(TRUE, d, None) : d \in RequestDicts } \cup
    { PyObj(FALSE, EmptyDict, v) : v \in {"42", "[2,3]"} }

Texts == { Malformed(e) : e \in {"Expecting value"} } \cup { TextOf(r) : r \in Requests }

Options == {None, "opt"}

ErrorCodes == {-32769, -32768, -32050, -32000, -31999, 100}

\* what a registered handler function may do when invoked
Behaviours ==
    { Returns(v) : v \in {None, "5", Unserializable} } \cup
    { Raises(InvalidParamsError(TRUE, [k \in {"message"} |-> "bad argument"])),
      Raises(Exc("JSONRPCError", -32050, "custom", FALSE, EmptyDict, "")) } \cup
    { Raises(Exc("APIError", c, "app error", FALSE, EmptyDict, "")) : c \in ErrorCodes } \cup
    { Raises(Exc("APIError", 100, "app error", TRUE, [k \in {"detail"} |-> "x"], "")),
      Raises(Exc("APIError", 100, None, FALSE, EmptyDict, "")),
      Raises(Exc("Exception", 0, None, FALSE, EmptyDict, "boom")) }

NoInput == [req_data |-> PyObj(FALSE, EmptyDict, None), jsondata |-> Malformed(""),
            options |-> None, func |-> BuiltinDescribe, name |-> None,
            pviol |-> FALSE, rviol |-> FALSE]

NoOutcome == Result("None", EmptyDict, "", <<>>, <<>>)

\* the threads of the transport that call into the service
NumThreads == 2
Threads == 1..NumThreads
\* one execution of call_py: where it is (at), its arguments, what the
\* handler and the validators do for it, its local variables (method, and
\* the value of do_method()), its return value, and the registry it found
Frame(at, req_data, options, behaviour, pviol, rviol, method, m, out, reg) ==
    [at |-> at, req_data |-> req_data, options |-> options,
     behaviour |-> behaviour, pviol |-> pviol, rviol |-> rviol,
     method |-> method, m |-> m, out |-> out, reg |-> reg]
NoStep == Step(FALSE, NoExc, None, <<>>, <<>>)
NoCall == Frame("idle", NoInput.req_data, None, Returns(None), FALSE, FALSE,
                Method("system.describe", BuiltinDescribe), NoStep, NoOutcome, <<>>)

\* a well-formed request for system.describe without params
IsDescribe(req_data) ==
    /\ ~jsonrpc_schemas_validate(req_data).raised
    /\ req_data.d["method"] = "system.describe"
    /\ "params" \notin DOMAIN req_data.d
\* what a call put out, the echoed id aside
Output(out) ==
    [kind |-> IF out.kind = "text" THEN "object" ELSE out.kind,
     ret |-> [k \in DOMAIN out.ret \ {"id"} |-> out.ret[k]]]
\* no system.describe call yet; then the first output, and whether the call
\* has been repeated
NoDescribe == [seen |-> FALSE, repeated |-> FALSE, output |-> Output(NoOutcome)]
Recorded(req_data, out) ==
    IF ~IsDescribe(req_data) THEN described
    ELSE IF ~described.seen
         THEN [seen |-> TRUE, repeated |-> FALSE, output |-> Output(out)]
    ELSE [described EXCEPT !.repeated = TRUE]

Init ==
    /\ method_registry = <<Method("system.describe", BuiltinDescribe)>>
    /\ service_validation \in ValidationConfigs
    /\ validate_result \in BOOLEAN
    /\ description = "service description"
    /\ pc = "idle"
    /\ op = "none"
    /\ input = NoInput
    /\ outcome = NoOutcome
    /\ described = NoDescribe
    /\ calls = [t \in Threads |-> NoCall]

\* service.add(func, name)
Add(func, name) ==
    /\ pc = "idle"
    /\ LET a == add(method_registry, func, name) IN
        /\ Len(a.reg) <= MaxMethods
        /\ method_registry' = a.reg
        /\ outcome' = Result(IF a.raised THEN "raise" ELSE "None", EmptyDict, a.exc, <<>>, <<>>)
        /\ described' = IF a.raised THEN described ELSE NoDescribe
    /\ pc' = "returned"
    /\ op' = "add"
    /\ input' = [NoInput EXCEPT !.func = func, !.name = name]
    /\ UNCHANGED <<service_validation, validate_result, description, calls>>

\* service.call_py(req_data, options); the handler and the validators do
\* what behaviour, pviol and rviol say
CallPy(req_data, options, behaviour, pviol, rviol) ==
    /\ pc = "idle"
    /\ outcome' = call_py(method_registry, service_validation, validate_result,
                          description, req_data, options, behaviour, pviol, rviol)
    /\ pc' = "returned"
    /\ op' = "call_py"
    /\ input' = [NoInput EXCEPT !.req_data = req_data, !.options = options,
                                !.pviol = pviol, !.rviol = rviol]
    /\ described' = Recorded(req_data, outcome')
    /\ UNCHANGED <<method_registry, service_validation, validate_result, description,
                   calls>>

\* service.call(jsondata, options)
Call(jsondata, options, behaviour, pviol, rviol) ==
    /\ pc = "idle"
    /\ outcome' = call(method_registry, service_validation, validate_result,
                       description, jsondata, options, behaviour, pviol, rviol)
    /\ pc' = "returned"
    /\ op' = "call"
    /\ input' = [NoInput EXCEPT !.jsondata = jsondata, !.req_data = jsondata.obj,
                                !.options = options,
                                !.pviol = pviol, !.rviol = rviol]
    /\ described' = Recorded(jsondata.obj, outcome')
    /\ UNCHANGED <<method_registry, service_validation, validate_result, description,
                   calls>>

\* the caller takes the return value (or the exception); the request and
\* response values of the call are discarded
Discard ==
    /\ pc = "returned"
    /\ pc' = "idle"
    /\ op' = "none"
    /\ input' = NoInput
    /\ outcome' = NoOutcome
    /\ UNCHANGED <<method_registry, service_validation, validate_result, description,
                   described, calls>>

\* The handler and the validators are consulted only on some paths of
\* call_py; on the other paths what they would do is immaterial, and one
\* choice stands for all.
ReachesHandler(req_data) ==
    /\ ~jsonrpc_schemas_validate(req_data).raised
    /\ registered(method_registry, req_data.d["method"])
    /\ registry_get(method_registry, req_data.d["method"]).func # BuiltinDescribe

BehavioursFor(req_data) ==
    IF ReachesHandler(req_data) THEN Behaviours ELSE {Returns(None)}

ParamsOutcomesFor(req_data) ==
    IF /\ ReachesHandler(req_data)
       /\ "params" \in DOMAIN req_data.d
       /\ ~service_validation.isNone
       /\ has_params_validation(service_validation, req_data.d["method"])
    THEN BOOLEAN ELSE {FALSE}

ResultOutcomesFor(req_data, behaviour, pviol) ==
    IF /\ ReachesHandler(req_data)
       /\ behaviour.k = "return" /\ ~pviol
       /\ validate_result /\ ~service_validation.isNone
       /\ has_result_validation(service_validation, req_data.d["method"])
       /\ ~has_absent_result_validation(service_validation, req_data.d["method"])
    THEN BOOLEAN ELSE {FALSE}

Next ==
    \/ /\ pc = "idle"
       /\ \E func \in Funcs, name \in {None, "", "add", "system.x", "system.describe"} :
            Add(func, name)
    \/ /\ pc = "idle"
       /\ \E req_data \in Requests, options \in Options :
          \E behaviour \in BehavioursFor(req_data), pviol \in ParamsOutcomesFor(req_data) :
          \E rviol \in ResultOutcomesFor(req_data, behaviour, pviol) :
            CallPy(req_data, options, behaviour, pviol, rviol)
    \/ /\ pc = "idle"
       /\ \E jsondata \in Texts, options \in Options :
          \E behaviour \in BehavioursFor(jsondata.obj), pviol \in ParamsOutcomesFor(jsondata.obj) :
          \E rviol \in ResultOutcomesFor(jsondata.obj, behaviour, pviol) :
            Call(jsondata, options, behaviour, pviol, rviol)
    \/ Discard

Spec == Init /\ [][Next]_vars

----------------------------------------------------------------------------
(* call_py executions of several threads, interleaved stage by stage *)

\* variant: the local variables are kept on the service object, so that an
\* execution reads those of an execution that entered after it
locals_on_self(frames, t) ==
    IF \E u \in Threads \ {t} : frames[u].at = "entered"
    THEN [frames[CHOOSE u \in Threads \ {t} : frames[u].at = "entered"]
            EXCEPT !.at = frames[t].at]
    ELSE frames[t]

\* the local variables of the execution of thread t
locals(frames, t) == frames[t]

\* the registry after the application registered its handlers
RegisteredSetups ==
    LET r0 == <<Method("system.describe", BuiltinDescribe)>>
        r1 == add(r0, "add", None).reg
        r2 == add(r1, "get", None).reg
    IN {r1, r2}

InitConcurrent ==
    /\ method_registry \in RegisteredSetups
    /\ service_validation \in ValidationConfigs
    /\ validate_result \in BOOLEAN
    /\ description = "service description"
    /\ pc = "idle"
    /\ op = "none"
    /\ input = NoInput
    /\ outcome = NoOutcome
    /\ described = NoDescribe
    /\ calls = [t \in Threads |-> NoCall]

\* the requests and the handler behaviours of the concurrent callers
ConcurrentRequests ==
    { PyObj(TRUE, Request("1.1", "add", "[2,3]", "1"), None),
      PyObj(TRUE, Request("1.1", "get", "[2,3]", "42"), None),
      PyObj(TRUE, Request("1.0", "add", "[2,3]", "5"), None) }
ConcurrentBehaviours ==
    { Returns("5"), Raises(Exc("APIError", 100, "app error", FALSE, EmptyDict, "")) }
ConcurrentBehavioursFor(req_data) ==
    IF ReachesHandler(req_data) THEN ConcurrentBehaviours ELSE {Returns(None)}

ServiceUnchanged ==
    UNCHANGED <<method_registry, service_validation, validate_result, description,
                pc, op, input, outcome, described>>

\* thread t calls call_py(req_data, options)
Enter(t, req_data, options, behaviour, pviol, rviol) ==
    /\ calls[t].at = "idle"
    /\ calls' = [calls EXCEPT ![t] =
            Frame("entered", req_data, options, behaviour, pviol, rviol,
                  NoCall.method, NoStep, NoOutcome, method_registry)]
    /\ ServiceUnchanged

\* the structural validation of the request
Validate(t) ==
    /\ calls[t].at = "entered"
    /\ LET f == locals(calls, t)
           checked == jsonrpc_schemas_validate(f.req_data)
           error == make_jsonrpc_error(PyInt(-32600), None, TRUE, checked.exc.data).val
           id == IF f.req_data.isdict THEN dict_get(f.req_data.d, "id") ELSE None
       IN calls' = [calls EXCEPT ![t] =
            IF checked.raised
            THEN [f EXCEPT !.at = "returned",
                           !.out = Result("object", make_jsonrpc_error_response(error, id),
                                          "", <<>>, <<"validate", "respond">>)]
            ELSE [f EXCEPT !.at = "validated"]]
    /\ ServiceUnchanged

\* the lookup of the method in the registry
Resolve(t) ==
    /\ calls[t].at = "validated"
    /\ LET f == locals(calls, t)
           method_name == f.req_data.d["method"]
           id == dict_get(f.req_data.d, "id")
           error == make_jsonrpc_error(PyInt(-32601), None, TRUE,
                        [k \in {"method", "available_methods"} |->
                            IF k = "method" THEN method_name
                            ELSE registry_keys(method_registry)]).val
       IN calls' = [calls EXCEPT ![t] =
            IF ~registered(method_registry, method_name)
            THEN [f EXCEPT !.at = "returned",
                           !.out = Result("object", make_jsonrpc_error_response(error, id),
                                          "", <<>>, <<"validate", "resolve", "respond">>)]
            ELSE [f EXCEPT !.at = "resolved",
                           !.method = registry_get(method_registry, method_name)]]
    /\ ServiceUnchanged

\* do_method(): the parameter-role check and the invocation of the handler
Invoke(t) ==
    /\ calls[t].at = "resolved"
    /\ LET f == locals(calls, t)
           method_name == f.req_data.d["method"]
           id == dict_get(f.req_data.d, "id")
           m == do_method(service_validation, description, method_name, f.method,
                          dict_get(f.req_data.d, "params"), f.options,
                          f.behaviour, f.pviol)
           t1 == <<"validate", "resolve">> \o m.stages
       IN calls' = [calls EXCEPT ![t] =
            IF m.raised
            THEN [f EXCEPT !.at = "returned", !.m = m,
                           !.out = handle_exception(m.exc, method_name, id, m.invoked, t1)]
            ELSE [f EXCEPT !.at = "invoked", !.m = m]]
    /\ ServiceUnchanged

\* do_result() and the response
Respond(t) ==
    /\ calls[t].at = "invoked"
    /\ LET f == locals(calls, t)
           method_name == f.req_data.d["method"]
           id == dict_get(f.req_data.d, "id")
           has_id == "id" \in DOMAIN f.req_data.d
           r == do_result(service_validation, validate_result, method_name,
                          f.m.val, f.rviol)
           t1 == <<"validate", "resolve">> \o f.m.stages \o r.stages
       IN calls' = [calls EXCEPT ![t] =
            [f EXCEPT !.at = "returned",
                      !.out = IF r.raised
                              THEN handle_exception(r.exc, method_name, id, f.m.invoked, t1)
                              ELSE Result("object",
                                          make_result_response(has_id, f.req_data, r.val),
                                          "", f.m.invoked, t1 \o <<"respond">>)]]
    /\ ServiceUnchanged

\* the caller of thread t takes the response; the locals are discarded
Leave(t) ==
    /\ calls[t].at = "returned"
    /\ calls' = [calls EXCEPT ![t] = NoCall]
    /\ ServiceUnchanged

NextConcurrent ==
    \/ \E t \in Threads, req_data \in ConcurrentRequests, options \in {None} :
       \E behaviour \in ConcurrentBehavioursFor(req_data),
          pviol \in ParamsOutcomesFor(req_data) :
       \E rviol \in ResultOutcomesFor(req_data, behaviour, pviol) :
            Enter(t, req_data, options, behaviour, pviol, rviol)
    \/ \E t \in Threads : Validate(t)
    \/ \E t \in Threads : Resolve(t)
    \/ \E t \in Threads : Invoke(t)
    \/ \E t \in Threads : Respond(t)
    \/ \E t \in Threads : Leave(t)

SpecConcurrent == InitConcurrent /\ [][NextConcurrent]_vars

----------------------------------------------------------------------------
(* Properties *)

CalledPy == pc = "returned" /\ op = "call_py"
Called == pc = "returned" /\ op = "call"
Added == pc = "returned" /\ op = "add"

\* the request object of the last call and the response it got
Req == input.req_data
Resp == outcome.ret
StructurallyValid == ~jsonrpc_schemas_validate(Req).raised
IsEnvelope == outcome.kind \in {"object", "text"}
IsError == IsEnvelope /\ "error" \in DOMAIN Resp
IsSuccess == IsEnvelope /\ "result" \in DOMAIN Resp
ErrorCode == Resp["error"]["code"]
ErrorData == Resp["error"]["error"]
CarriesId == Req.isdict /\ "id" \in DOMAIN Req.d
\* the response has an id member exactly when the request has, with its value
IdEchoed ==
    /\ ("id" \in DOMAIN Resp) <=> CarriesId
    /\ "id" \in DOMAIN Resp => Resp["id"] = Req.d["id"]
\* what the invoked handler did
HandlerInvoked == outcome.invoked # <<>>
Did == outcome.invoked[1].did

\* C1: call and call_py never terminate by raising an exception to their
\* caller, whatever the input, the registry, the handler and the validators do.
C1_NoFaultEscapes ==
    (pc = "returned" /\ op \in {"call_py", "call"}) => outcome.kind # "raise"

\* C2: call returns nothing for a structurally valid request without an id
\* key that names a registered method and completes without any error.
C2_NotificationReturnsNothing ==
    ( /\ Called /\ input.jsondata.wf /\ StructurallyValid
      /\ "id" \notin DOMAIN Req.d
      /\ registered(method_registry, Req.d["method"])
      /\ outcome.kind # "raise" /\ ~IsError )
    => outcome.kind = "None"

\* C3: a success envelope returned by call_py has an id member iff the
\* request has an id key, and then with the request's value, null included.
C3_SuccessIdEcho == (CalledPy /\ IsSuccess) => IdEchoed

C3_Witness ==
    /\ CalledPy /\ IsSuccess
    /\ CarriesId /\ Req.d["id"] = None
    /\ "id" \in DOMAIN Resp /\ Resp["id"] = None

\* C4: an error envelope produced after structural validation passed has an
\* id member iff the request has an id key, with the request's value.
C4_ErrorIdEcho == (CalledPy /\ StructurallyValid /\ IsError) => IdEchoed

\* C5: every envelope returned by call_py has version "1.1" and exactly one
\* of the members result and error.
C5_ExactlyOneOfResultError ==
    (CalledPy /\ outcome.kind = "object") =>
        /\ "version" \in DOMAIN Resp /\ Resp["version"] = "1.1"
        /\ ("result" \in DOMAIN Resp) # ("error" \in DOMAIN Resp)

C5_Witness ==
    /\ CalledPy /\ outcome.kind = "object" /\ HandlerInvoked
    /\ Did.k = "raise" /\ "error" \in DOMAIN Resp /\ "result" \notin DOMAIN Resp

\* C6: for a request object that fails structural validation call_py returns
\* an InvalidRequest envelope (-32600) with the violation's message, path and
\* value, invokes no handler, and echoes the id of a mapping that has one,
\* else omits id.
C6_InvalidRequestEnvelope ==
    (CalledPy /\ ~StructurallyValid) =>
        /\ outcome.kind = "object" /\ IsError
        /\ ErrorCode = -32600
        /\ ErrorData = jsonrpc_schemas_validate(Req).exc.data
        /\ ~HandlerInvoked
        /\ IdEchoed

\* C7: for a text that is not well-formed JSON call returns a Parse-error
\* envelope (-32700) without id, and no later lifecycle stage runs.
C7_ParseErrorEnvelope ==
    (Called /\ ~input.jsondata.wf) =>
        /\ outcome.kind = "text" /\ IsError
        /\ ErrorCode = -32700
        /\ "id" \notin DOMAIN Resp
        /\ outcome.trace = <<"parse", "respond">>
        /\ ~HandlerInvoked

C7_Witness ==
    /\ Called /\ ~input.jsondata.wf
    /\ outcome.kind = "text" /\ Len(method_registry) > 1

\* C8: a structurally valid request naming a method that is not in the
\* registry yields a -32601 envelope with the request's id, whose data has the
\* unresolved name and exactly the registered names; no handler is invoked.
C8_MethodNotFoundEnvelope ==
    (CalledPy /\ StructurallyValid /\ ~registered(method_registry, Req.d["method"])) =>
        /\ outcome.kind = "object" /\ IsError
        /\ ErrorCode = -32601
        /\ IdEchoed
        /\ ErrorData["method"] = Req.d["method"]
        /\ LET listed == ErrorData["available_methods"] IN
            { listed[i] : i \in 1..Len(listed) } =
                { method_registry[i].name : i \in 1..Len(method_registry) }
        /\ "system.describe" \in { method_registry[i].name : i \in 1..Len(method_registry) }
        /\ ~HandlerInvoked

\* the name an add call registers under
FunctionName(func, name) == IF name # None /\ name # "" THEN name ELSE func_name(func)

\* C9: add under an already bound name (system.describe included) raises
\* DuplicateMethodName and leaves the registry unchanged; every name stays
\* bound to the first handler registered under it, system.describe to the
\* built-in handler.
C9_DuplicateAdd ==
    /\ [](/\ registered(method_registry, "system.describe")
          /\ registry_get(method_registry, "system.describe").func = BuiltinDescribe)
    /\ [][ /\ \A i \in 1..Len(method_registry) :
                LET n == method_registry[i].name IN
                /\ registered(method_registry', n)
                /\ registry_get(method_registry', n).func = method_registry[i].func
           /\ (op' = "add" /\ registered(method_registry, FunctionName(input'.func, input'.name)))
                => /\ outcome'.kind = "raise"
                   /\ outcome'.exc = "DuplicateMethodName"
                   /\ method_registry' = method_registry
         ]_vars

C9_Witness ==
    /\ Added /\ outcome.kind = "raise" /\ outcome.exc = "DuplicateMethodName"
    /\ input.name = "add" /\ registered(method_registry, "add")
    /\ registry_get(method_registry, "add").func # input.func

\* C10: when the handler raises an APIError whose code is in [-32768, -32000],
\* call_py returns a -32001 envelope whose data has bad_code equal to the
\* raised code; the raised code is not the envelope's code.
C10_ReservedCodeCollision ==
    ( /\ CalledPy /\ HandlerInvoked
      /\ Did.k = "raise" /\ Did.exc.cls = "APIError"
      /\ Did.exc.code >= -32768 /\ Did.exc.code <= -32000 )
    => /\ outcome.kind = "object" /\ IsError
       /\ ErrorCode = -32001
       /\ ErrorData["bad_code"] = Did.exc.code
       /\ ErrorCode # Did.exc.code

C10_Witness ==
    /\ CalledPy /\ HandlerInvoked
    /\ Did.k = "raise" /\ Did.exc.cls = "APIError" /\ Did.exc.code = -32050
    /\ IsError /\ ErrorCode = -32001

\* the reserved band and the codes predefined in it
InReservedBand(code) == code >= -32768 /\ code <= -32000
PredefinedCodes == {-32700, -32600, -32601, -32602, -32603, -32000, -32001, -32002}
HandlerRaised(cls) == HandlerInvoked /\ Did.k = "raise" /\ Did.exc.cls = cls

C12_APIErrorUntouched ==
    (CalledPy /\ HandlerRaised("APIError") /\ ~InReservedBand(Did.exc.code)) =>
        /\ outcome.kind = "object" /\ IsError
        /\ ErrorCode = Did.exc.code
        /\ Resp["error"]["message"] = Did.exc.message
        /\ ("error" \in DOMAIN Resp["error"]) <=> Did.exc.has_data
        /\ Did.exc.has_data => ErrorData = Did.exc.data

\* C12 (amended): the envelope's code is the handler's, its message is
\* str() of the handler's message, and its structured data is the handler's
\* data (an empty mapping if none) with the member method set to the
\* request's method name.
C12_APIErrorPassesWithMethod ==
    (CalledPy /\ HandlerRaised("APIError") /\ ~InReservedBand(Did.exc.code)) =>
        /\ outcome.kind = "object" /\ IsError
        /\ Resp["error"]["name"] = "APIError"
        /\ ErrorCode = Did.exc.code
        /\ Resp["error"]["message"] = py_str(Did.exc.message)
        /\ "error" \in DOMAIN Resp["error"]
        /\ ErrorData = dict_set(IF Did.exc.has_data THEN Did.exc.data ELSE EmptyDict,
                                "method", Req.d["method"])

C12_Witness ==
    /\ CalledPy /\ HandlerRaised("APIError") /\ Did.exc.code = 100
    /\ Did.exc.has_data /\ IsError /\ ErrorCode = 100
    /\ ErrorData["detail"] = "x"

\* C13: a fault that is neither a JSONRPCError nor an APIError yields an
\* envelope with the ServerError code -32000, the same fixed message for
\* every fault, and data that carries the fault's text.
C13_PlainFaultIsServerError ==
    (CalledPy /\ HandlerRaised("Exception")) =>
        /\ outcome.kind = "object" /\ IsError
        /\ ErrorCode = -32000
        /\ ErrorCode # -32002
        /\ Resp["error"]["message"] = "Exception calling method"
        /\ ErrorData["exception_message"] = Did.exc.text

\* names in the reserved system namespace, and the Validation object that
\* applies to a method
SystemNamespace == {"system.describe", "system.x"}
ValidatorOf(method_name) ==
    IF method_name \in SystemNamespace THEN system_validation ELSE service_validation
\* the last call_py got a well-formed request for a registered method
Resolved ==
    CalledPy /\ StructurallyValid /\ registered(method_registry, Req.d["method"])
InvalidParamsEnvelope == outcome.kind = "object" /\ IsError /\ ErrorCode = -32602

\* C14: for a method with the no-params-expected role, a request that has a
\* params member, whatever its content, yields an InvalidParams envelope
\* (-32602) and the handler is not invoked.
C14_NoParamsExpected ==
    ( /\ Resolved
      /\ ~ValidatorOf(Req.d["method"]).isNone
      /\ Req.d["method"] \in ValidatorOf(Req.d["method"]).absent_params
      /\ "params" \in DOMAIN Req.d )
    => (InvalidParamsEnvelope /\ ~HandlerInvoked)

C14_Witness ==
    /\ Resolved /\ Req.d["method"] = "get"
    /\ "get" \in service_validation.absent_params
    /\ "params" \in DOMAIN Req.d /\ Req.d["params"] = "[]"
    /\ InvalidParamsEnvelope

\* C15: for a method with the params-expected role, a request without params
\* yields an InvalidParams envelope (-32602), and a request whose params
\* violate the schema yields an InvalidParams envelope that carries the
\* violation's message, path and value; the handler is not invoked.
C15_ParamsExpected ==
    ( /\ Resolved
      /\ ~ValidatorOf(Req.d["method"]).isNone
      /\ Req.d["method"] \in ValidatorOf(Req.d["method"]).params )
    => /\ "params" \notin DOMAIN Req.d => (InvalidParamsEnvelope /\ ~HandlerInvoked)
       /\ ("params" \in DOMAIN Req.d /\ input.pviol) =>
            /\ InvalidParamsEnvelope /\ ~HandlerInvoked
            /\ "error" \in DOMAIN Resp["error"]
            /\ \A k \in {"message", "path", "value"} :
                /\ k \in DOMAIN ErrorData
                /\ ErrorData[k] =
                     validate_params(Req.d["method"], Req.d["params"], TRUE).exc.data[k]

C15_Witness ==
    /\ Resolved /\ Req.d["method"] \in service_validation.params
    /\ "params" \in DOMAIN Req.d /\ input.pviol
    /\ InvalidParamsEnvelope /\ ErrorData["value"] = Req.d["params"]

\* C16: when the service has a validator and the resolved method has neither
\* the params-expected nor the no-params-expected role, every request to it
\* yields an InvalidParams envelope (-32602) and the handler is not invoked.
C16_NoRoleFailsLoudly ==
    ( /\ Resolved
      /\ ~service_validation.isNone
      /\ Req.d["method"] \notin ValidatorOf(Req.d["method"]).params
      /\ Req.d["method"] \notin ValidatorOf(Req.d["method"]).absent_params )
    => (InvalidParamsEnvelope /\ ~HandlerInvoked)

C16_Witness ==
    /\ Resolved /\ ~service_validation.isNone
    /\ Req.d["method"] = "add"
    /\ "add" \notin service_validation.params \cup service_validation.absent_params
    /\ InvalidParamsEnvelope /\ ~HandlerInvoked

\* a well-formed request for a name that add registered, on a service
\* constructed without a schema directory
AddedNameNoSchemas ==
    /\ Resolved
    /\ service_validation.isNone
    /\ registry_get(method_registry, Req.d["method"]).func # BuiltinDescribe
\* the handler got the raw params and the options, the engine made no
\* InvalidParams error of its own, and a returned value is the result
StraightToInvocation ==
    /\ Len(outcome.invoked) = 1
    /\ outcome.invoked[1].func = registry_get(method_registry, Req.d["method"]).func
    /\ outcome.invoked[1].params = dict_get(Req.d, "params")
    /\ outcome.invoked[1].options = input.options
    /\ (IsError /\ ErrorCode = -32602) => (Did.k = "raise" /\ Did.exc.code = -32602)
    /\ Did.k = "return" =>
        /\ outcome.kind = "object" /\ IsSuccess
        /\ Resp["result"] = Did.v
        /\ IdEchoed

\* C17 (as claimed): without a schema directory, a structurally valid request
\* for any name registered with add, whatever the name, goes straight to
\* invocation with the raw params and the options, the engine produces no
\* InvalidParams error, and a returned value v gives the success envelope
\* with result v and the request's id.
C17_NoSchemasStraightToInvocation == AddedNameNoSchemas => StraightToInvocation

\* C17 (amended): the same, for every name registered with add that does not
\* start with 'system.'.
C17_NoSchemasStraightToInvocationOutsideSystem ==
    (AddedNameNoSchemas /\ Req.d["method"] \notin SystemNamespace) => StraightToInvocation

C17_Witness ==
    /\ AddedNameNoSchemas /\ Req.d["method"] = "add"
    /\ dict_get(Req.d, "params") = "[2,3]" /\ dict_get(Req.d, "id") = "1"
    /\ HandlerInvoked /\ outcome.invoked[1].params = "[2,3]" /\ Did = Returns("5")
    /\ IsSuccess /\ Resp["result"] = "5" /\ Resp["id"] = "1"

\* the handler of a well-formed request returned a value while the service
\* validates results against its own validator
ResultValidated ==
    /\ Resolved
    /\ validate_result /\ ~service_validation.isNone
    /\ HandlerInvoked /\ Did.k = "return"

\* C18: with result validation enabled and a service validator configured,
\* for a method with the no-result-expected role and no result schema, a
\* non-null return value yields an InvalidResult envelope (-32002) and a null
\* return value yields a success envelope whose result is null.
C18_NoResultExpected ==
    ( /\ ResultValidated
      /\ Req.d["method"] \in service_validation.absent_result
      /\ Req.d["method"] \notin service_validation.result )
    => /\ Did.v # None => (outcome.kind = "object" /\ IsError /\ ErrorCode = -32002)
       /\ Did.v = None => (outcome.kind = "object" /\ IsSuccess /\ Resp["result"] = None)

\* C19: with result validation enabled, for a method with the result-expected
\* role, a return value that violates the result schema yields an error
\* envelope that is returned, not raised, is not an InvalidParams envelope,
\* and carries the violation's message, path and value and the request's id.
C19_ResultViolationEnvelope ==
    ( /\ ResultValidated
      /\ Req.d["method"] \in service_validation.result
      /\ Req.d["method"] \notin service_validation.absent_result
      /\ input.rviol )
    => /\ outcome.kind = "object"
       /\ IsError
       /\ ErrorCode # -32602
       /\ "error" \in DOMAIN Resp["error"]
       /\ \A k \in {"message", "path", "value"} :
            /\ k \in DOMAIN ErrorData
            /\ ErrorData[k] =
                 validate_result_schema(Req.d["method"], Did.v, TRUE).exc.data[k]
       /\ IdEchoed

\* C20: while the registry and the description do not change, every call
\* of system.describe without params, whatever was called in between and
\* whatever the options, puts out what the first such call put out.
C20_DescribeIdempotent ==
    (pc = "returned" /\ op \in {"call_py", "call"} /\ IsDescribe(Req))
    => /\ described.seen
       /\ Output(outcome) = described.output

C20_Witness ==
    /\ CalledPy /\ IsDescribe(Req)
    /\ described.repeated
    /\ IsSuccess /\ Resp["result"] = description
    /\ Len(method_registry) > 1

\* the stages of the lifecycle of a request, in their order
Stages == <<"validate", "resolve", "params", "invoke", "result", "respond">>
StageRank(stage) == CHOOSE i \in DOMAIN Stages : Stages[i] = stage
Entered == { outcome.trace[i] : i \in DOMAIN outcome.trace }
InStageOrder ==
    \A i \in DOMAIN outcome.trace : \A j \in DOMAIN outcome.trace :
        i < j => StageRank(outcome.trace[i]) < StageRank(outcome.trace[j])
\* the parameter-role check of the validator that applies, if any, passes
ParamsRolePassed ==
    LET validator == ValidatorOf(Req.d["method"])
        given == "params" \in DOMAIN Req.d
    IN \/ validator.isNone
       \/ Req.d["method"] \in validator.params /\ given /\ ~input.pviol
       \/ /\ Req.d["method"] \notin validator.params
          /\ Req.d["method"] \in validator.absent_params
          /\ ~given

\* C21: in every execution of call_py the stages run in their order, each at
\* most once; the handler is invoked at most once, and only after structural
\* validation succeeded, the method was found and the parameter-role check
\* passed; after a stage that produced an error no later stage runs.
C21_SequentialLifecycle ==
    CalledPy =>
        /\ InStageOrder
        /\ Len(outcome.invoked) <= 1
        /\ HandlerInvoked <=> "invoke" \in Entered
        /\ HandlerInvoked => (Resolved /\ ParamsRolePassed)
        /\ ~StructurallyValid => outcome.trace = <<"validate", "respond">>
        /\ (StructurallyValid /\ ~Resolved) =>
                outcome.trace = <<"validate", "resolve", "respond">>
        /\ (Resolved /\ ~ParamsRolePassed) =>
                outcome.trace = <<"validate", "resolve", "params", "respond">>
        /\ (HandlerInvoked /\ Did.k = "raise") =>
                (IsError /\ "result" \notin Entered)
        /\ ("result" \in Entered /\ IsError) =>
                outcome.trace[Len(outcome.trace) - 1] = "result"

C21_Witness ==
    /\ CalledPy /\ Resolved
    /\ ~service_validation.isNone /\ validate_result
    /\ Req.d["method"] \in service_validation.params
    /\ Len(outcome.invoked) = 1 /\ IsSuccess
    /\ outcome.trace = Stages

\* what the execution of thread t returns when it runs alone
Alone(t) ==
    call_py(method_registry, service_validation, validate_result, description,
            calls[t].req_data, calls[t].options, calls[t].behaviour,
            calls[t].pviol, calls[t].rviol)

\* C22: in every interleaving of call_py executions with no add running, an
\* execution returns the response it returns when run alone, with the id of
\* its own request and the result or error of its own handler, and the
\* registry is the one it found.
C22_ConcurrentCallsIndependent ==
    \A t \in Threads : calls[t].at = "returned" =>
        /\ calls[t].out = Alone(t)
        /\ calls[t].out.kind = "object" =>
                calls[t].out.ret["id"] = calls[t].req_data.d["id"]
        /\ calls[t].out.invoked # <<>> =>
                calls[t].out.invoked[1].did = calls[t].behaviour
        /\ method_registry = calls[t].reg

C22_Witness ==
    \E t \in Threads : \E u \in Threads \ {t} :
        /\ calls[t].at = "returned" /\ calls[u].at = "returned"
        /\ calls[t].req_data.d["id"] = "1" /\ calls[u].req_data.d["id"] = "42"
        /\ calls[t].behaviour = Returns("5") /\ calls[u].behaviour.k = "raise"
        /\ calls[t].out.ret = [version |-> "1.1", result |-> "5", id |-> "1"]
        /\ "error" \in DOMAIN calls[u].out.ret
        /\ calls[u].out.ret["error"]["code"] = 100
        /\ calls[u].out.ret["id"] = "42"

====
